---------------------------- MODULE Spec2Model ----------------------------
(***************************************************************************)
(* Model of the quiz chatbot core, src/core/reply_factory.py.              *)
(*                                                                         *)
(* Text is modelled as a sequence of tokens.  A token is a string: either  *)
(* one character typed by the user or held by the question data (" ",      *)
(* "a", "4", ...) or one literal chunk of a format string of the source    *)
(* ("\n\nOptions:\n", "Your Score: ", ...).  Concatenation of texts is     *)
(* \o, str.strip() removes whitespace tokens at both ends.                 *)
(*                                                                         *)
(* A Python reference that may be None is modelled as a sequence of        *)
(* length at most one: None is << >>, a value v is << v >>.                *)
(***************************************************************************)
EXTENDS Integers, Sequences, FiniteSets, TLC

VARIABLES
    PYTHON_QUESTION_LIST, \* the static question list (never changes)
    session,              \* the session dict: a function from the present keys
    bot_responses,        \* what the last call returned
    saves,                \* number of session.save() calls made by the last call
    final_args,           \* the sessions generate_final_response was given in the last call
    pre,                  \* the session as it was before the last call
    message,              \* the message or answer given to the last call
    op,                   \* which function the last step called
    arg_id,               \* the current_question_id given to a helper called directly
    ret,                  \* what a helper called directly returned
    raised,               \* whether the last call raised an exception
    calls                 \* number of calls made so far

vars == <<PYTHON_QUESTION_LIST, session, bot_responses, saves, final_args,
          pre, message, op, arg_id, ret, raised, calls>>

-----------------------------------------------------------------------------
(* Bounds of the model. *)

\* longest question list
MaxN == 2
\* number of generate_bot_responses calls followed from a fresh session
MaxCalls == 6
\* number of calls followed from an arbitrary session
MaxTurns == 3
\* longest quiz_answers list a helper called directly is given
MaxAnswers == 5

-----------------------------------------------------------------------------
(* Python values. *)

None == << >>
Some(v) == << v >>
IsNone(o) == o = << >>
Val(o) == o[1]

\* dict.get(key): None when the key is absent
Get(d, key) == IF key \in DOMAIN d THEN d[key] ELSE None

\* d[key] = value
Put(d, key, value) ==
    [k \in (DOMAIN d) \cup {key} |-> IF k = key THEN value ELSE d[k]]

EmptyDict == [k \in {} |-> None]

\* str(n) for a natural number n, one token per digit
Digit(d) == CASE d = 0 -> "0" [] d = 1 -> "1" [] d = 2 -> "2" [] d = 3 -> "3"
              [] d = 4 -> "4" [] d = 5 -> "5" [] d = 6 -> "6" [] d = 7 -> "7"
              [] d = 8 -> "8" [] OTHER -> "9"

RECURSIVE Str(_)
Str(n) == IF n < 10 THEN << Digit(n) >> ELSE Str(n \div 10) \o << Digit(n % 10) >>

IsSpace(c) == c \in {" ", "\t", "\n", "\r"}

RECURSIVE LStrip(_)
LStrip(s) == IF s # << >> /\ IsSpace(Head(s)) THEN LStrip(Tail(s)) ELSE s

RECURSIVE RStrip(_)
RStrip(s) == IF s # << >> /\ IsSpace(s[Len(s)])
             THEN RStrip(SubSeq(s, 1, Len(s) - 1)) ELSE s

\* str.strip()
Strip(s) == RStrip(LStrip(s))

-----------------------------------------------------------------------------
(* The static configuration imported from .constants. *)

BOT_WELCOME_MESSAGE == << "Welcome to the quiz!" >>

\* The questions a list is drawn from.  The first is the spec's scenario
\* question; the second has a canonical answer with surrounding whitespace.
QuestionPool ==
    { [question_text |-> << "2+2?" >>,
       options |-> << << "3" >>, << "4" >> >>,
       answer |-> << "4" >>],
      [question_text |-> << "first letter?" >>,
       options |-> << << "a" >>, << "A" >>, << "b", " ", "c" >> >>,
       answer |-> << " ", "a" >>] }

QuestionLists == UNION { [1..n -> QuestionPool] : n \in 0..MaxN }

\* What a user may type.
Messages == { << "4" >>, << " ", "4", " " >>, << "a" >>, << "A" >> }

N == Len(PYTHON_QUESTION_LIST)

-----------------------------------------------------------------------------
(* get_next_question, lines 98-128. *)

\* lines 121-123: the question text, the separator and the numbered options
RECURSIVE RenderOptions(_, _)
RenderOptions(options, i) ==
    IF i > Len(options) THEN << >>
    ELSE Str(i) \o << ". " >> \o options[i] \o << "\n" >>
         \o RenderOptions(options, i + 1)

RenderQuestion(q) ==
    q.question_text \o << "\n\nOptions:\n" >> \o RenderOptions(q.options, 1)

\* lines 109-113
NextQuestionId(current_question_id) ==
    (IF IsNone(current_question_id) THEN -1 ELSE Val(current_question_id)) + 1

\* line 118: PYTHON_QUESTION_LIST[i] raises IndexError below -len; an index
\* in -len..-1 counts from the end of the list
IndexRaises(i) == i < 0 - Len(PYTHON_QUESTION_LIST)

PyIndex(i) ==
    PYTHON_QUESTION_LIST[IF i < 0 THEN Len(PYTHON_QUESTION_LIST) + i + 1 ELSE i + 1]

get_next_question_raises(current_question_id) ==
    LET next_question_id == NextQuestionId(current_question_id)
    IN  next_question_id < Len(PYTHON_QUESTION_LIST) /\ IndexRaises(next_question_id)

\* the returned pair (next question text, next question ID)
get_next_question(current_question_id) ==
    LET next_question_id == NextQuestionId(current_question_id)
    IN  IF next_question_id < Len(PYTHON_QUESTION_LIST)
        THEN << Some(RenderQuestion(PyIndex(next_question_id))), next_question_id >>
        ELSE << None, -1 >>

-----------------------------------------------------------------------------
(* record_current_answer, lines 57-94. *)

\* AnswerRecord storing the id of the question that follows
AnswerRecord_NextId(current_question_id, answer, correct_answer, is_correct) ==
    [question_id |-> current_question_id + 1,
     user_answer |-> answer,
     correct_answer |-> correct_answer,
     is_correct |-> is_correct]

\* lines 87-92: the stored record
AnswerRecord(current_question_id, answer, correct_answer, is_correct) ==
    [question_id |-> current_question_id,
     user_answer |-> answer,
     correct_answer |-> correct_answer,
     is_correct |-> is_correct]

\* IsCorrect comparing the raw texts, the strip() calls of line 81 left out
IsCorrect_NoStrip(answer, correct_answer) == answer = correct_answer

\* line 81
IsCorrect(answer, correct_answer) == Strip(answer) = Strip(correct_answer)

\* record_current_answer without the "< 0" test of line 70: a negative id
\* falls through to the range test and is reported as invalid
record_current_answer_NoNegativeTest(answer, current_question_id, s) ==
    IF IsNone(current_question_id)
    THEN [ret |-> << FALSE, << "No active question" >> >>, session |-> s]
    ELSE IF Val(current_question_id) >= Len(PYTHON_QUESTION_LIST)
            \/ Val(current_question_id) < 0
    THEN [ret |-> << FALSE, << "Invalid question ID" >> >>, session |-> s]
    ELSE
        LET correct_answer == PYTHON_QUESTION_LIST[Val(current_question_id) + 1].answer
        IN  [ret |-> << TRUE, << >> >>,
             session |-> Put(s, "quiz_answers",
                             Append(Get(s, "quiz_answers"),
                                    AnswerRecord(Val(current_question_id), answer,
                                                 correct_answer,
                                                 IsCorrect(answer, correct_answer))))]

\* record_current_answer reporting success without lines 84-92: nothing is
\* stored
record_current_answer_NoStore(answer, current_question_id, s) ==
    IF IsNone(current_question_id) \/ Val(current_question_id) < 0
    THEN [ret |-> << FALSE, << "No active question" >> >>, session |-> s]
    ELSE IF Val(current_question_id) >= Len(PYTHON_QUESTION_LIST)
    THEN [ret |-> << FALSE, << "Invalid question ID" >> >>, session |-> s]
    ELSE [ret |-> << TRUE, << >> >>, session |-> s]

\* Returns the pair (success, error message) as ret and the session as the
\* call leaves it.
record_current_answer(answer, current_question_id, s) ==
    IF IsNone(current_question_id) \/ Val(current_question_id) < 0
    THEN [ret |-> << FALSE, << "No active question" >> >>, session |-> s]
    ELSE IF Val(current_question_id) >= Len(PYTHON_QUESTION_LIST)
    THEN [ret |-> << FALSE, << "Invalid question ID" >> >>, session |-> s]
    ELSE
        LET correct_answer == PYTHON_QUESTION_LIST[Val(current_question_id) + 1].answer
            is_correct == IsCorrect(answer, correct_answer)
            s1 == IF "quiz_answers" \notin DOMAIN s
                  THEN Put(s, "quiz_answers", << >>) ELSE s
            s2 == Put(s1, "quiz_answers",
                      Append(s1["quiz_answers"],
                             AnswerRecord(Val(current_question_id), answer,
                                          correct_answer, is_correct)))
        IN  [ret |-> << TRUE, << >> >>, session |-> s2]

-----------------------------------------------------------------------------
(* generate_final_response, lines 130-169. *)

\* correct_answers counting every record, the "if answer['is_correct']" of
\* line 145 left out
correct_answers_CountAll(quiz_answers) == Len(quiz_answers)

\* line 145
RECURSIVE correct_answers(_)
correct_answers(quiz_answers) ==
    IF quiz_answers = << >> THEN 0
    ELSE (IF Head(quiz_answers).is_correct THEN 1 ELSE 0)
         + correct_answers(Tail(quiz_answers))

\* line 146
total_questions(quiz_answers) == Len(quiz_answers)

\* line 147: (correct_answers / total_questions) * 100, kept as the exact
\* fraction << numerator, denominator >>.  The source computes it in binary
\* floating point; for every total below 160 the float compares with 100, 80
\* and 60 and prints to two decimals exactly as the fraction does.
score_percentage(quiz_answers) ==
    << correct_answers(quiz_answers) * 100, total_questions(quiz_answers) >>

\* line 151: f"{score_percentage:.2f}", the fraction rounded to hundredths
\* (ties to even)
Format2f(p) ==
    LET num == p[1] * 100
        den == p[2]
        fl == num \div den
        twice == 2 * (num % den)
        h == IF twice > den \/ (twice = den /\ fl % 2 = 1) THEN fl + 1 ELSE fl
        frac == h % 100
    IN  Str(h \div 100) \o << "." >>
        \o (IF frac < 10 THEN << "0" >> ELSE << >>) \o Str(frac)

\* Remark with "> 80" for the ">= 80" of line 156
Remark_StrictEighty(p) ==
    IF p[1] = 100 * p[2] THEN << "Excellent! Perfect score!" >>
    ELSE IF p[1] > 80 * p[2]
    THEN << "Great job! You have a strong understanding of Python." >>
    ELSE IF p[1] >= 60 * p[2]
    THEN << "Good effort. You're on the right track with Python." >>
    ELSE << "Keep studying. There's room for improvement in your Python skills." >>

\* lines 154-161
Remark(p) ==
    IF p[1] = 100 * p[2] THEN << "Excellent! Perfect score!" >>
    ELSE IF p[1] >= 80 * p[2]
    THEN << "Great job! You have a strong understanding of Python." >>
    ELSE IF p[1] >= 60 * p[2]
    THEN << "Good effort. You're on the right track with Python." >>
    ELSE << "Keep studying. There's room for improvement in your Python skills." >>

\* Breakdown showing the canonical answer for the submitted one
RECURSIVE Breakdown_ShowsCorrect(_, _)
Breakdown_ShowsCorrect(quiz_answers, i) ==
    IF i > Len(quiz_answers) THEN << >>
    ELSE << "\nQ" >> \o Str(i) \o << ": " >>
         \o << IF quiz_answers[i].is_correct THEN "(check)" ELSE "(cross)" >>
         \o << " Your answer: " >> \o quiz_answers[i].correct_answer
         \o Breakdown_ShowsCorrect(quiz_answers, i + 1)

\* lines 165-167; the glyphs U+2713 and U+2717 are the tokens "(check)" and
\* "(cross)"
RECURSIVE Breakdown(_, _)
Breakdown(quiz_answers, i) ==
    IF i > Len(quiz_answers) THEN << >>
    ELSE << "\nQ" >> \o Str(i) \o << ": " >>
         \o << IF quiz_answers[i].is_correct THEN "(check)" ELSE "(cross)" >>
         \o << " Your answer: " >> \o quiz_answers[i].user_answer
         \o Breakdown(quiz_answers, i + 1)

generate_final_response(s) ==
    IF "quiz_answers" \notin DOMAIN s \/ s["quiz_answers"] = << >>
    THEN << "No quiz answers found. Please complete the quiz." >>
    ELSE
        LET quiz_answers == s["quiz_answers"]
        IN  << "Quiz Completed!\n\n" >>
            \o << "Your Score: " >> \o Str(correct_answers(quiz_answers))
            \o << "/" >> \o Str(total_questions(quiz_answers))
            \o << " (" >> \o Format2f(score_percentage(quiz_answers)) \o << "%)\n\n" >>
            \o Remark(score_percentage(quiz_answers))
            \o << "\n\nDetailed Breakdown:" >>
            \o Breakdown(quiz_answers, 1)

-----------------------------------------------------------------------------
(* generate_bot_responses, lines 5-53. *)

\* line 42: a text is true when it is neither None nor empty
Truthy(text) == ~IsNone(text) /\ Val(text) # << >>

\* What one call does: the returned list (ret), the session as the call
\* leaves it, the number of session.save() calls, the sessions handed to
\* generate_final_response, and whether an exception left the call.

\* ColdStart that begins the new pass with an empty quiz_answers
ColdStart_ClearAnswers(s) ==
    LET first == get_next_question(None)
    IN  [ret |-> << Some(BOT_WELCOME_MESSAGE), first[1] >>,
         session |-> Put(Put(s, "quiz_answers", << >>),
                         "current_question_id", Some(first[2])),
         saves |-> 1,
         final_args |-> << >>,
         raised |-> FALSE]

\* lines 22-29: the cold start
ColdStart(s) ==
    LET first == get_next_question(None)
    IN  [ret |-> << Some(BOT_WELCOME_MESSAGE), first[1] >>,
         session |-> Put(s, "current_question_id", Some(first[2])),
         saves |-> 1,
         final_args |-> << >>,
         raised |-> get_next_question_raises(None)]

\* ErrorReturn that resets the quiz on a failure, as lines 49-52 do on
\* completion
ErrorReturn_Reset(rec) ==
    [ret |-> << Some(rec.ret[2]) >>,
     session |-> Put(rec.session, "current_question_id", None),
     saves |-> 1,
     final_args |-> << >>,
     raised |-> FALSE]

\* lines 35-36: the recorder failed
ErrorReturn(rec) ==
    [ret |-> << Some(rec.ret[2]) >>,
     session |-> rec.session,
     saves |-> 0,
     final_args |-> << >>,
     raised |-> FALSE]

\* NextQuestionReturn that shows the next question and leaves the stored id
\* where it was, line 44 left out
NextQuestionReturn_KeepId(rec, next) ==
    [ret |-> << next[1] >>,
     session |-> rec.session,
     saves |-> 1,
     final_args |-> << >>,
     raised |-> FALSE]

\* lines 42-44 and 52-53: there is a next question
NextQuestionReturn(rec, next) ==
    [ret |-> << next[1] >>,
     session |-> Put(rec.session, "current_question_id", Some(next[2])),
     saves |-> 1,
     final_args |-> << >>,
     raised |-> FALSE]

\* FinalReturn scoring only the records of the pass just finished
FinalReturn_LastPass(rec) ==
    LET all == rec.session["quiz_answers"]
        last == SubSeq(all, Len(all) - Len(PYTHON_QUESTION_LIST) + 1, Len(all))
    IN  [ret |-> << Some(generate_final_response(
                            Put(rec.session, "quiz_answers", last))) >>,
         session |-> Put(rec.session, "current_question_id", None),
         saves |-> 1,
         final_args |-> << rec.session >>,
         raised |-> FALSE]

\* lines 45-53: no more questions
FinalReturn(rec) ==
    [ret |-> << Some(generate_final_response(rec.session)) >>,
     session |-> Put(rec.session, "current_question_id", None),
     saves |-> 1,
     final_args |-> << rec.session >>,
     raised |-> FALSE]

generate_bot_responses(msg, s) ==
    LET current_question_id == Get(s, "current_question_id")
    IN  IF IsNone(current_question_id)
        THEN ColdStart(s)
        ELSE
            LET rec == record_current_answer(msg, current_question_id, s)
            IN  IF ~rec.ret[1]
                THEN ErrorReturn(rec)
                ELSE IF get_next_question_raises(current_question_id)
                THEN [ErrorReturn(rec) EXCEPT !.ret = << >>, !.raised = TRUE]
                ELSE
                    LET next == get_next_question(current_question_id)
                    IN  IF Truthy(next[1])
                        THEN NextQuestionReturn(rec, next)
                        ELSE FinalReturn(rec)

-----------------------------------------------------------------------------
(* The sessions a call may find. *)

\* A new session holds no key.
FreshSession == EmptyDict

\* Records left by an earlier quiz pass.
PriorAnswerLists ==
    { << AnswerRecord(0, m, q.answer, IsCorrect(m, q.answer)) >> :
        m \in Messages, q \in QuestionPool }

\* current_question_id as an earlier run, possibly over a longer or shorter
\* question list, may have left it: absent, None, or an integer
StoredIds == {None} \cup { Some(k) : k \in (0 - 1)..(MaxN + 1) }

AnySessions ==
    { EmptyDict }
    \cup { Put(EmptyDict, "current_question_id", c) : c \in StoredIds }
    \cup { Put(EmptyDict, "quiz_answers", qa) : qa \in PriorAnswerLists }
    \cup { Put(Put(EmptyDict, "current_question_id", c), "quiz_answers", qa) :
             c \in StoredIds, qa \in PriorAnswerLists }

\* ids a helper may be called with directly
ArgIds == {None} \cup { Some(k) : k \in (0 - 2)..(MaxN + 1) }

\* The sessions a helper may be called with directly: quiz_answers absent or
\* holding up to MaxAnswers records, right and wrong ones in any order.
UnitRecords ==
    { AnswerRecord(0, << "4" >>, << "4" >>, IsCorrect(<< "4" >>, << "4" >>)),
      AnswerRecord(0, << "A" >>, << " ", "a" >>, IsCorrect(<< "A" >>, << " ", "a" >>)),
      AnswerRecord(1, << " ", "4", " " >>, << "4" >>,
                   IsCorrect(<< " ", "4", " " >>, << "4" >>)) }

UnitAnswerLists == UNION { [1..n -> UnitRecords] : n \in 1..MaxAnswers }

UnitSessions ==
    LET bases == { EmptyDict, Put(EmptyDict, "current_question_id", Some(0)) }
    IN  bases \cup { Put(b, "quiz_answers", qa) : b \in bases, qa \in UnitAnswerLists }

-----------------------------------------------------------------------------
(* Specifications. *)

InitWith(sessions) ==
    /\ PYTHON_QUESTION_LIST \in QuestionLists
    /\ session \in sessions
    /\ bot_responses = << >>
    /\ saves = 0
    /\ final_args = << >>
    /\ pre = session
    /\ message = << >>
    /\ op = "none"
    /\ arg_id = None
    /\ ret = << >>
    /\ raised = FALSE
    /\ calls = 0

\* One turn: the host calls generate_bot_responses(message, session).
Turn(limit) ==
    /\ calls < limit
    /\ \E msg \in Messages :
         LET r == generate_bot_responses(msg, session)
         IN  /\ session' = r.session
             /\ bot_responses' = r.ret
             /\ saves' = r.saves
             /\ final_args' = r.final_args
             /\ raised' = r.raised
             /\ message' = msg
    /\ pre' = session
    /\ op' = "generate_bot_responses"
    /\ calls' = calls + 1
    /\ UNCHANGED <<PYTHON_QUESTION_LIST, arg_id, ret>>

\* A direct call record_current_answer(answer, current_question_id, session).
CallRecordCurrentAnswer ==
    /\ op = "none"
    /\ \E answer \in Messages, id \in ArgIds :
         LET r == record_current_answer(answer, id, session)
         IN  /\ session' = r.session
             /\ ret' = r.ret
             /\ message' = answer
             /\ arg_id' = id
    /\ pre' = session
    /\ op' = "record_current_answer"
    /\ raised' = FALSE
    /\ calls' = calls + 1
    /\ UNCHANGED <<PYTHON_QUESTION_LIST, bot_responses, saves, final_args>>

\* A direct call get_next_question(current_question_id).
CallGetNextQuestion ==
    /\ op = "none"
    /\ \E id \in ArgIds :
         /\ arg_id' = id
         /\ raised' = get_next_question_raises(id)
         /\ ret' = IF get_next_question_raises(id) THEN << >>
                   ELSE get_next_question(id)
    /\ pre' = session
    /\ op' = "get_next_question"
    /\ calls' = calls + 1
    /\ UNCHANGED <<PYTHON_QUESTION_LIST, session, bot_responses, saves,
                   final_args, message>>

\* A direct call generate_final_response(session).
CallGenerateFinalResponse ==
    /\ op = "none"
    /\ ret' = generate_final_response(session)
    /\ final_args' = << session >>
    /\ pre' = session
    /\ op' = "generate_final_response"
    /\ raised' = FALSE
    /\ calls' = calls + 1
    /\ UNCHANGED <<PYTHON_QUESTION_LIST, session, bot_responses, saves,
                   message, arg_id>>

\* Turns on a fresh session.
Init == InitWith({FreshSession})
Next == Turn(MaxCalls)
Spec == Init /\ [][Next]_vars

\* Turns on any session.
InitAny == InitWith(AnySessions)
NextAny == Turn(MaxTurns)
SpecAny == InitAny /\ [][NextAny]_vars

\* One helper called directly, on any input.
InitUnit == InitWith(UnitSessions)
NextUnit ==
    \/ CallRecordCurrentAnswer
    \/ CallGetNextQuestion
    \/ CallGenerateFinalResponse
SpecUnit == InitUnit /\ [][NextUnit]_vars

-----------------------------------------------------------------------------
(* Vocabulary of the properties. *)

IsTurn == op = "generate_bot_responses"

\* current_question_id as the last call found it and as it left it
PreId == Get(pre, "current_question_id")
PostId == Get(session, "current_question_id")

\* the records of a session, none when the key is absent
AnswersOf(s) == IF "quiz_answers" \in DOMAIN s THEN s["quiz_answers"] ELSE << >>

\* a returned element that is a text of generate_final_response
IsFinalText(m) ==
    /\ ~IsNone(m)
    /\ Val(m) # << >>
    /\ Head(Val(m)) \in { "Quiz Completed!\n\n",
                          "No quiz answers found. Please complete the quiz." }

\* a text without its leading and trailing whitespace, stated by position
Trimmed(t) ==
    LET solid == { i \in 1..Len(t) : ~IsSpace(t[i]) }
    IN  IF solid = {} THEN << >>
        ELSE SubSeq(t, CHOOSE i \in solid : \A j \in solid : i <= j,
                       CHOOSE i \in solid : \A j \in solid : i >= j)

\* the session keys other than key are as the last call found them
OthersUnchanged(key) ==
    /\ DOMAIN session \ {key} = DOMAIN pre \ {key}
    /\ \A k \in DOMAIN pre \ {key} : session[k] = pre[k]

-----------------------------------------------------------------------------
(* C1 *)

\* C1: with a question list of length N and a fresh session, call N+1
\* returns exactly one message, the final summary, and leaves
\* current_question_id absent; none of the calls 1..N returns a final summary.
C1_FinalAtCallNPlus1 ==
    IsTurn =>
        /\ calls = N + 1 =>
              /\ Len(bot_responses) = 1
              /\ IsFinalText(bot_responses[1])
              /\ final_args # << >>
              /\ IsNone(PostId)
        /\ calls <= N =>
              \A i \in 1..Len(bot_responses) : ~IsFinalText(bot_responses[i])

\* The same for the lists that hold a question.
C1_FinalAtCallNPlus1_NonEmptyList == N >= 1 => C1_FinalAtCallNPlus1

C1_Witness ==
    /\ IsTurn /\ N = 2 /\ calls = 3
    /\ Len(bot_responses) = 1 /\ IsFinalText(bot_responses[1])

-----------------------------------------------------------------------------
(* C2 *)

\* C2: a call on a session whose current_question_id is absent or None
\* returns exactly the welcome text and the rendering of question 0, and
\* sets current_question_id to 0, whatever the message and the question list.
C2_ColdStart ==
    IsTurn /\ IsNone(PreId) =>
        /\ N >= 1
        /\ bot_responses = << Some(BOT_WELCOME_MESSAGE),
                              Some(RenderQuestion(PYTHON_QUESTION_LIST[1])) >>
        /\ "current_question_id" \in DOMAIN session
        /\ session["current_question_id"] = Some(0)

\* The same for the lists that hold a question.
C2_ColdStart_NonEmptyList == N >= 1 => C2_ColdStart

C2_Witness ==
    /\ IsTurn /\ N >= 1
    /\ "current_question_id" \in DOMAIN pre /\ IsNone(PreId)
    /\ AnswersOf(pre) # << >>
    /\ PostId = Some(0)

-----------------------------------------------------------------------------
(* C3 *)

\* C3: for an id k with 0 <= k < N and any answer, record_current_answer
\* succeeds and appends exactly one record to quiz_answers (creating the
\* list when absent): question_id k, user_answer the raw answer,
\* correct_answer the answer of question k, is_correct true exactly when the
\* trimmed answer equals the trimmed canonical answer, letter case kept.
C3_RecordAppendsOne ==
    op = "record_current_answer" /\ ~IsNone(arg_id)
        /\ Val(arg_id) >= 0 /\ Val(arg_id) < N =>
        LET canonical == PYTHON_QUESTION_LIST[Val(arg_id) + 1].answer
        IN  /\ ret = << TRUE, << >> >>
            /\ ~raised
            /\ "quiz_answers" \in DOMAIN session
            /\ session["quiz_answers"] =
                 Append(AnswersOf(pre),
                        [question_id |-> Val(arg_id),
                         user_answer |-> message,
                         correct_answer |-> canonical,
                         is_correct |-> (Trimmed(message) = Trimmed(canonical))])
            /\ OthersUnchanged("quiz_answers")

\* the list is created, and the answer is right only once trimmed
C3_Witness ==
    /\ op = "record_current_answer"
    /\ "quiz_answers" \notin DOMAIN pre
    /\ message = << " ", "4", " " >>
    /\ Len(AnswersOf(session)) = 1
    /\ AnswersOf(session)[1].is_correct
    /\ AnswersOf(session)[1].correct_answer = << "4" >>

-----------------------------------------------------------------------------
(* C4 *)

\* C4: in every state reached from a fresh session, for a question list of
\* any length, current_question_id is absent (None) or an index k with
\* 0 <= k < N; the sentinel -1 is never left in the session.
C4_IdAbsentOrValid ==
    IsNone(PostId) \/ (Val(PostId) >= 0 /\ Val(PostId) < N)

\* The same for the lists that hold a question.
C4_IdAbsentOrValid_NonEmptyList == N >= 1 => C4_IdAbsentOrValid

-----------------------------------------------------------------------------
(* C5 *)

\* C5: every call changes current_question_id by one of: absent -> 0;
\* k -> k+1 with the answer recorded and k+1 < N; k -> absent with the
\* answer recorded and k+1 = N.
C5_Transitions ==
    IsTurn =>
        \/ /\ IsNone(PreId)
           /\ PostId = Some(0)
        \/ /\ ~IsNone(PreId)
           /\ Val(PreId) + 1 < N
           /\ PostId = Some(Val(PreId) + 1)
           /\ Len(AnswersOf(session)) = Len(AnswersOf(pre)) + 1
        \/ /\ ~IsNone(PreId)
           /\ Val(PreId) + 1 = N
           /\ IsNone(PostId)
           /\ Len(AnswersOf(session)) = Len(AnswersOf(pre)) + 1

\* The same for the lists that hold a question.
C5_Transitions_NonEmptyList == N >= 1 => C5_Transitions

-----------------------------------------------------------------------------
(* C6 *)

\* C6: every call of generate_bot_responses, on every path (cold start, next
\* question, final summary, recorder failure), calls session.save() exactly
\* once before it returns, whatever current_question_id the session holds.
C6_SavedOnce == IsTurn => saves = 1

\* The same for the calls on which the recorder does not fail.
C6_SavedOnce_RecorderSucceeds ==
    IsTurn /\ (IsNone(PreId) \/ (Val(PreId) >= 0 /\ Val(PreId) < N)) => saves = 1

-----------------------------------------------------------------------------
(* C7 *)

\* C7: a turn on a session whose current_question_id is absent returns
\* exactly ["No active question"] and leaves quiz_answers unchanged.
C7_AbsentIdGivesError ==
    IsTurn /\ IsNone(PreId) =>
        /\ bot_responses = << Some(<< "No active question" >>) >>
        /\ AnswersOf(session) = AnswersOf(pre)

\* C7 as amended: a turn returns exactly ["No active question"] when, and
\* only when, the stored current_question_id is a negative integer, and then
\* leaves the session, quiz_answers included, as it found it; a turn on a
\* session whose current_question_id is absent takes the cold start instead:
\* it returns two elements, the welcome text first, and leaves quiz_answers
\* unchanged.
C7_NegativeIdGivesError ==
    IsTurn =>
        /\ (bot_responses = << Some(<< "No active question" >>) >>)
              <=> (~IsNone(PreId) /\ Val(PreId) < 0)
        /\ (~IsNone(PreId) /\ Val(PreId) < 0) => session = pre
        /\ IsNone(PreId) =>
              /\ Len(bot_responses) = 2
              /\ bot_responses[1] = Some(BOT_WELCOME_MESSAGE)
              /\ DOMAIN session \cap {"quiz_answers"} = DOMAIN pre \cap {"quiz_answers"}
              /\ AnswersOf(session) = AnswersOf(pre)

\* a question list with questions, a stored id of -1 and earlier records
C7_Witness ==
    /\ IsTurn /\ N >= 1
    /\ PreId = Some(0 - 1)
    /\ AnswersOf(pre) # << >>
    /\ bot_responses = << Some(<< "No active question" >>) >>

-----------------------------------------------------------------------------
(* C8 *)

\* C8: when record_current_answer fails inside generate_bot_responses (the
\* stored id is negative or >= N), the call returns exactly one message, the
\* recorder's error text, raises nothing, and leaves current_question_id and
\* quiz_answers as they were.
C8_RecorderFailure ==
    IsTurn /\ ~IsNone(PreId) /\ (Val(PreId) < 0 \/ Val(PreId) >= N) =>
        /\ bot_responses =
             << Some(IF Val(PreId) < 0 THEN << "No active question" >>
                     ELSE << "Invalid question ID" >>) >>
        /\ ~raised
        /\ "current_question_id" \in DOMAIN session
        /\ session["current_question_id"] = pre["current_question_id"]
        /\ DOMAIN session \cap {"quiz_answers"} = DOMAIN pre \cap {"quiz_answers"}
        /\ AnswersOf(session) = AnswersOf(pre)

\* the stored id is past the end of a list that holds questions
C8_Witness ==
    /\ IsTurn /\ N >= 1
    /\ ~IsNone(PreId) /\ Val(PreId) >= N
    /\ AnswersOf(pre) # << >>
    /\ bot_responses = << Some(<< "Invalid question ID" >>) >>

-----------------------------------------------------------------------------
(* C9 *)

\* C9: whenever a call of generate_bot_responses reaches
\* generate_final_response, quiz_answers is present in the session and holds
\* at least one record, so the "No quiz answers found" text is never
\* returned, whatever the starting session and the question list.
C9_FinalHasAnswers ==
    IsTurn =>
        /\ \A i \in 1..Len(final_args) :
              /\ "quiz_answers" \in DOMAIN final_args[i]
              /\ Len(final_args[i]["quiz_answers"]) >= 1
        /\ \A i \in 1..Len(bot_responses) :
              bot_responses[i] #
                 Some(<< "No quiz answers found. Please complete the quiz." >>)

\* the scorer is reached from a session that held no quiz_answers
C9_Witness ==
    /\ IsTurn
    /\ final_args # << >>
    /\ "quiz_answers" \notin DOMAIN pre
    /\ IsFinalText(bot_responses[1])

-----------------------------------------------------------------------------
(* C10 *)

\* C10: for a non-empty quiz_answers, generate_final_response computes
\* correct = the number of records with is_correct and total = the number of
\* records, 0 <= correct <= total, and a percentage equal to
\* 100 * correct / total, so 0 <= percentage <= 100; the score line shows
\* correct/total.
C10_Score ==
    op = "generate_final_response" /\ AnswersOf(pre) # << >> =>
        LET quiz_answers == AnswersOf(pre)
            correct == Cardinality({ i \in 1..Len(quiz_answers) :
                                       quiz_answers[i].is_correct })
            total == Len(quiz_answers)
            p == score_percentage(quiz_answers)
            line == << "Quiz Completed!\n\n", "Your Score: " >> \o Str(correct)
                    \o << "/" >> \o Str(total) \o << " (" >>
        IN  /\ correct_answers(quiz_answers) = correct
            /\ total_questions(quiz_answers) = total
            /\ 0 <= correct /\ correct <= total
            /\ p[2] > 0
            /\ p[1] * total = 100 * correct * p[2]
            /\ 0 <= p[1] /\ p[1] <= 100 * p[2]
            /\ Len(ret) >= Len(line)
            /\ SubSeq(ret, 1, Len(line)) = line

\* some records right, some wrong
C10_Witness ==
    /\ op = "generate_final_response"
    /\ Len(AnswersOf(pre)) = 5
    /\ correct_answers(AnswersOf(pre)) = 3
    /\ SubSeq(ret, 3, 11) = << "3", "/", "5", " (", "6", "0", ".", "0", "0" >>

-----------------------------------------------------------------------------
(* C11 *)

\* the records of a list that are right
RightCount(quiz_answers) ==
    Cardinality({ i \in 1..Len(quiz_answers) : quiz_answers[i].is_correct })

\* the positions of a token in a text
PositionsOf(token, text) == { i \in 1..Len(text) : text[i] = token }

\* the remarks of lines 155-161
RemarkTexts ==
    { "Excellent! Perfect score!",
      "Great job! You have a strong understanding of Python.",
      "Good effort. You're on the right track with Python.",
      "Keep studying. There's room for improvement in your Python skills." }

\* C11: for a non-empty quiz_answers with C right records out of T, the
\* summary holds exactly one remark, placed after the score line: the
\* perfect-score remark iff C = T, the "great" one iff 80T <= 100C < 100T,
\* the "good" one iff 60T <= 100C < 80T, the lowest one iff 100C < 60T.
C11_Remark ==
    op = "generate_final_response" /\ AnswersOf(pre) # << >> =>
        LET C == RightCount(AnswersOf(pre))
            T == Len(AnswersOf(pre))
            at == { i \in 1..Len(ret) : ret[i] \in RemarkTexts }
            expected ==
                IF C = T THEN "Excellent! Perfect score!"
                ELSE IF 80 * T <= 100 * C
                THEN "Great job! You have a strong understanding of Python."
                ELSE IF 60 * T <= 100 * C
                THEN "Good effort. You're on the right track with Python."
                ELSE "Keep studying. There's room for improvement in your Python skills."
        IN  /\ Cardinality(at) = 1
            /\ \A i \in at : /\ ret[i] = expected
                             /\ i > 1
                             /\ ret[i - 1] = "%)\n\n"
                             /\ i < Len(ret)
                             /\ ret[i + 1] = "\n\nDetailed Breakdown:"

\* four right out of five: exactly 80 percent
C11_Witness ==
    /\ op = "generate_final_response"
    /\ Len(AnswersOf(pre)) = 5
    /\ RightCount(AnswersOf(pre)) = 4
    /\ PositionsOf("Great job! You have a strong understanding of Python.", ret) # {}

-----------------------------------------------------------------------------
(* C12 *)

\* C12: quiz_answers is append-only over any sequence of
\* generate_bot_responses calls: after every call the records the call found
\* are an unchanged prefix of the records it leaves, also across the cold
\* start that begins a new pass after a completion.
C12_AppendOnly ==
    IsTurn =>
        /\ "quiz_answers" \in DOMAIN pre => "quiz_answers" \in DOMAIN session
        /\ Len(AnswersOf(session)) >= Len(AnswersOf(pre))
        /\ SubSeq(AnswersOf(session), 1, Len(AnswersOf(pre))) = AnswersOf(pre)

\* the cold start after a completed pass
C12_Witness ==
    /\ IsTurn /\ N = 2 /\ calls = 4
    /\ IsNone(PreId)
    /\ PostId = Some(0)
    /\ Len(AnswersOf(pre)) = 2
    /\ AnswersOf(session) = AnswersOf(pre)

-----------------------------------------------------------------------------
(* C13 *)

\* C13: every element of every list returned by generate_bot_responses is a
\* message text, never None, whatever the session and for a question list of
\* any length, the empty list included.
C13_NoNoneMessage ==
    IsTurn => \A i \in 1..Len(bot_responses) : ~IsNone(bot_responses[i])

\* The same for the lists that hold a question.
C13_NoNoneMessage_NonEmptyList == N >= 1 => C13_NoNoneMessage

-----------------------------------------------------------------------------
(* C14 *)

\* C14: from a fresh session with N >= 1 questions, the summary returned at
\* the p-th completion scores every record stored since the session began:
\* its total is p * N and its right count is the number of right records of
\* all p passes.
C14_SummaryOverAllPasses ==
    IsTurn /\ N >= 1 /\ final_args # << >> =>
        LET p == calls \div (N + 1)
            all == AnswersOf(session)
            line == << "Quiz Completed!\n\n", "Your Score: " >>
                    \o Str(RightCount(all)) \o << "/" >> \o Str(p * N) \o << " (" >>
        IN  /\ calls = p * (N + 1)
            /\ Len(all) = p * N
            /\ AnswersOf(final_args[1]) = all
            /\ Len(bot_responses) = 1
            /\ ~IsNone(bot_responses[1])
            /\ Len(Val(bot_responses[1])) >= Len(line)
            /\ SubSeq(Val(bot_responses[1]), 1, Len(line)) = line

\* the second completion of a two-question quiz, with right and wrong
\* answers in the first pass
C14_Witness ==
    /\ IsTurn /\ N = 2 /\ calls = 6
    /\ final_args # << >>
    /\ Len(AnswersOf(session)) = 4
    /\ AnswersOf(session)[1].is_correct
    /\ ~AnswersOf(session)[2].is_correct
    /\ RightCount(AnswersOf(session)) = 3

-----------------------------------------------------------------------------
(* C15 *)

\* C15: record_current_answer has exactly one outcome for every
\* current_question_id: None or a negative integer gives
\* (False, "No active question"); an integer >= N gives
\* (False, "Invalid question ID"); an integer in [0, N) gives (True, "").
\* In both failures the session is not modified and nothing is raised.
C15_RecorderOutcomes ==
    op = "record_current_answer" =>
        /\ ~raised
        /\ IF IsNone(arg_id) THEN ret = << FALSE, << "No active question" >> >>
           ELSE IF Val(arg_id) < 0 THEN ret = << FALSE, << "No active question" >> >>
           ELSE IF Val(arg_id) >= N THEN ret = << FALSE, << "Invalid question ID" >> >>
           ELSE ret = << TRUE, << >> >>
        /\ ~ret[1] => session = pre

\* an id past the end of a list that holds questions, given with a session
\* that holds records
C15_Witness ==
    /\ op = "record_current_answer"
    /\ N >= 1
    /\ ~IsNone(arg_id) /\ Val(arg_id) = N
    /\ AnswersOf(pre) # << >>
    /\ ret = << FALSE, << "Invalid question ID" >> >>

-----------------------------------------------------------------------------
(* C16 *)

\* C16: get_next_question touches no session state and, for every input id
\* c (None counting as -1), returns (rendering of question c+1, c+1) when
\* c+1 < N and (None, -1) otherwise.
C16_NextQuestion ==
    op = "get_next_question" =>
        LET c == IF IsNone(arg_id) THEN 0 - 1 ELSE Val(arg_id)
        IN  /\ session = pre
            /\ ~raised
            /\ IF c + 1 < N
               THEN /\ c + 1 >= 0
                    /\ ret = << Some(RenderQuestion(PYTHON_QUESTION_LIST[c + 2])),
                                c + 1 >>
               ELSE ret = << None, 0 - 1 >>

\* The same for the inputs None and c >= -1.
C16_NextQuestion_FromMinusOne ==
    IsNone(arg_id) \/ Val(arg_id) >= 0 - 1 => C16_NextQuestion

-----------------------------------------------------------------------------
(* C17 *)

\* a returned element that is a rendered question
IsQuestionText(m) == ~IsNone(m) /\ PositionsOf("\n\nOptions:\n", Val(m)) # {}

ShownQuestion ==
    IsTurn /\ \E i \in 1..Len(bot_responses) : IsQuestionText(bot_responses[i])

\* the stored id is the index of the question the call returned
C17_StoredIdIsShown ==
    IsTurn =>
        \A i \in 1..Len(bot_responses) :
            IsQuestionText(bot_responses[i]) =>
                /\ ~IsNone(PostId)
                /\ Val(PostId) >= 0 /\ Val(PostId) < N
                /\ Val(bot_responses[i]) =
                     RenderQuestion(PYTHON_QUESTION_LIST[Val(PostId) + 1])

\* the record the next call appends is about that question
C17_NextRecordIsShown ==
    ShownQuestion /\ Len(AnswersOf(session')) = Len(AnswersOf(session)) + 1 =>
        LET r == AnswersOf(session')[Len(AnswersOf(session'))]
        IN  /\ r.question_id = Val(PostId)
            /\ r.correct_answer = PYTHON_QUESTION_LIST[Val(PostId) + 1].answer

\* C17: whenever a call returns a rendered question, current_question_id
\* after the call is that question's index, and the record appended by the
\* next successful call has that index as question_id and that question's
\* answer as correct_answer.
C17_AnswerAttribution ==
    [] C17_StoredIdIsShown /\ [][C17_NextRecordIsShown]_vars

\* the answer to the second of two different questions has been recorded
C17_Witness ==
    /\ IsTurn /\ N = 2 /\ calls = 3
    /\ PYTHON_QUESTION_LIST[1] # PYTHON_QUESTION_LIST[2]
    /\ PreId = Some(1)
    /\ Len(AnswersOf(session)) = 2
    /\ AnswersOf(session)[2].question_id = 1
    /\ AnswersOf(session)[2].correct_answer = PYTHON_QUESTION_LIST[2].answer

-----------------------------------------------------------------------------
(* C18 *)

\* C18: in every state reached from a fresh session with N >= 1 questions,
\* the number of records is congruent modulo N to the pending index (equal
\* to current_question_id when it is present, to 0 when it is absent), and
\* the i-th record, counted from 0, has question_id i mod N.
C18_CountMatchesIndex ==
    N >= 1 =>
        LET quiz_answers == AnswersOf(session)
        IN  /\ Len(quiz_answers) % N = (IF IsNone(PostId) THEN 0 ELSE Val(PostId))
            /\ \A i \in 1..Len(quiz_answers) :
                  quiz_answers[i].question_id = (i - 1) % N

\* the second pass of a two-question quiz, one answer in
C18_Witness ==
    /\ N = 2
    /\ Len(AnswersOf(session)) = 3
    /\ PostId = Some(1)

-----------------------------------------------------------------------------
(* C19 *)

\* a returned list that is one recorder error
IsRecorderError ==
    /\ IsTurn
    /\ bot_responses \in { << Some(<< "No active question" >>) >>,
                          << Some(<< "Invalid question ID" >>) >> }

\* C19: once a call of generate_bot_responses has returned a recorder error,
\* every later call, whatever the message, returns the same single error and
\* leaves the session as it is.
C19_ErrorAbsorbing ==
    [][IsRecorderError =>
          /\ bot_responses' = bot_responses
          /\ session' = session
          /\ saves' = 0]_vars

\* the third error in a row, the messages differing
C19_Witness ==
    /\ IsRecorderError
    /\ calls = 3
    /\ N >= 1
    /\ session = pre
    /\ bot_responses = << Some(<< "Invalid question ID" >>) >>

-----------------------------------------------------------------------------
(* C20 *)

\* C20: for a non-empty quiz_answers the summary holds, after the breakdown
\* header, exactly one entry per record, in recording order and numbered
\* from 1, each with the pass glyph iff the record's is_correct is true and
\* with the record's user_answer as submitted (not its correct_answer).  An
\* entry is what one round of the loop of lines 165-167 writes, from its
\* "\nQ" to the next one or to the end of the text.
C20_Breakdown ==
    op = "generate_final_response" /\ AnswersOf(pre) # << >> =>
        LET quiz_answers == AnswersOf(pre)
            starts == PositionsOf("\nQ", ret)
            headers == PositionsOf("\n\nDetailed Breakdown:", ret)
        IN  /\ Cardinality(headers) = 1
            /\ Cardinality(starts) = Len(quiz_answers)
            /\ \A h \in headers : h + 1 \in starts /\ \A i \in starts : i > h
            /\ \A i \in starts :
                  LET j == Cardinality({ k \in starts : k <= i })
                      later == { k \in starts : k > i }
                      end == IF later = {} THEN Len(ret)
                             ELSE (CHOOSE k \in later : \A l \in later : k <= l) - 1
                  IN  SubSeq(ret, i, end) =
                          << "\nQ" >> \o Str(j) \o << ": " >>
                          \o << IF quiz_answers[j].is_correct
                                THEN "(check)" ELSE "(cross)" >>
                          \o << " Your answer: " >> \o quiz_answers[j].user_answer

\* five records: the second wrong, the third right only once trimmed
C20_Witness ==
    /\ op = "generate_final_response"
    /\ Len(AnswersOf(pre)) = 5
    /\ ~AnswersOf(pre)[2].is_correct
    /\ AnswersOf(pre)[2].user_answer # AnswersOf(pre)[2].correct_answer
    /\ AnswersOf(pre)[3].is_correct
    /\ AnswersOf(pre)[3].user_answer = << " ", "4", " " >>
    /\ Cardinality(PositionsOf("\nQ", ret)) = 5

=============================================================================
